---- MODULE Spec2Model ----
(***************************************************************************)
(* A model of app.py, the URL/content shortener: the request handlers and  *)
(* the helper functions they call, over the four tables of the external    *)
(* store (users, sessions, folders, links) and its object store.           *)
(*                                                                         *)
(* Strings are sequences of one-character strings; "LF" stands for the     *)
(* newline character and "SUP" for a non-ASCII digit such as the           *)
(* superscript two.  Python's None is the empty sequence and a present     *)
(* value v is <<v>>.  A store call either answers or raises; the set       *)
(* `fail` of a handler names the calls that raise during that request.     *)
(***************************************************************************)
EXTENDS Integers, Sequences, FiniteSets, TLC

VARIABLES
    now,        \* now_utc(), in days
    users,      \* table users: set of [id, email, password]
    sessions,   \* table sessions: set of [id, user_id, expires_at, revoked]
    folders,    \* table folders: set of [id, name, user_id]
    links,      \* table links: set of [id, short_code, content_type, content, user_id, folder_id]
    objects,    \* object store bucket 'content': set of object keys
    serial,     \* the store's id sequences: rows inserted so far, per table
    last,       \* the last request handled: its inputs, store calls and outcome
    loggedOut,  \* tokens for which destroy_session has been performed
    code,       \* the string handed to is_valid_custom_code
    verdict,    \* its answer: "unchecked", "accept" or "reject"
    pc,         \* per concurrent request: the step it is at
    req         \* per concurrent request: its locals

vars == <<now, users, sessions, folders, links, objects, serial, last,
          loggedOut, code, verdict, pc, req>>

None == <<>>
Some(v) == <<v>>

----------------------------------------------------------------------------
(* Characters and is_valid_custom_code                                     *)

Lower == {"a", "b", "c"}
Upper == {"Z"}
Digits == {"0", "1", "7"}
CodeChars == Lower \cup Upper \cup Digits \cup {"_", "-"}
Chars == {"a", "Z", "7", "_", "-", "!", "LF"}

MaxLen == 11
MaxOdd == 2

\* Python's '$' (without re.MULTILINE) matches at the end of the string and
\* also just before a newline that is the string's last character.
AtDollar(s, k) ==
    \/ k = Len(s)
    \/ k = Len(s) - 1 /\ s[Len(s)] = "LF"

MinCodeLen == 3
MaxCodeLen == 10

\* re.match(r'^[a-zA-Z0-9_-]{3,10}$', code): some k in 3..10 leading
\* characters of the class, followed by '$'.
is_valid_custom_code(s) ==
    \E k \in MinCodeLen..MaxCodeLen :
        /\ k <= Len(s)
        /\ \A i \in 1..k : s[i] \in CodeChars
        /\ AtDollar(s, k)

Odd(s) == Cardinality({i \in 1..Len(s) : s[i] # "a"})

IdleStore ==
    /\ now = 0
    /\ users = {}
    /\ sessions = {}
    /\ folders = {}
    /\ links = {}
    /\ objects = {}
    /\ serial = [folders |-> 0, links |-> 0]
    /\ last = [op |-> "none"]
    /\ loggedOut = {}

IdleCode == code = <<>> /\ verdict = "unchecked"

IdleRace == pc = <<>> /\ req = <<>>

storeVars == <<now, users, sessions, folders, links, objects, serial, last, loggedOut>>
codeVars == <<code, verdict>>
raceVars == <<pc, req>>

InitCode == IdleStore /\ IdleCode /\ IdleRace

TypeChar(c) ==
    /\ verdict = "unchecked"
    /\ Len(code) < MaxLen
    /\ Odd(Append(code, c)) <= MaxOdd
    /\ code' = Append(code, c)
    /\ UNCHANGED <<verdict, storeVars, raceVars>>

Validate ==
    /\ verdict = "unchecked"
    /\ verdict' = IF is_valid_custom_code(code) THEN "accept" ELSE "reject"
    /\ UNCHANGED <<code, storeVars, raceVars>>

NextInput ==
    /\ verdict # "unchecked"
    /\ code' = <<>>
    /\ verdict' = "unchecked"
    /\ UNCHANGED <<storeVars, raceVars>>

NextCode ==
    \/ \E c \in Chars : TypeChar(c)
    \/ Validate
    \/ NextInput

SpecCode == InitCode /\ [][NextCode]_vars

\* C3: is_valid_custom_code(code) is true if and only if code has 3 to 10
\* characters, each a letter, a digit, '_' or '-'; anything else, a string
\* with a trailing newline included, is rejected.
C3_AcceptsIffWellFormed ==
    verdict # "unchecked" =>
        (verdict = "accept" <=>
            /\ Len(code) \in 3..10
            /\ \A i \in 1..Len(code) : code[i] \in {"a", "Z", "7", "_", "-"})

----------------------------------------------------------------------------
(* Sessions: create_session, get_session_user, destroy_session and the     *)
(* register, login and logout routes.  Time is counted in days; the        *)
(* store compares expires_at with now as timestamps.                       *)

SESSION_MAX_DAYS == 7

Tokens == {"t1", "t2"}
NoCookie == ""
Cookies == Tokens \cup {NoCookie}
Emails == {<<"e">>, <<"f">>}
Passwords == {<<"p">>, <<"q">>}
MaxUsers == 2
MaxNow == 8

\* the id the store gives a new users row (rows are never deleted)
NewUserId == Cardinality(users) + 1

\* secrets.token_urlsafe(48): a token no session row has yet
FreshTokens == Tokens \ {s.id : s \in sessions}

SessionRow(token, user_id) ==
    [id |-> token, user_id |-> user_id,
     expires_at |-> now + SESSION_MAX_DAYS, revoked |-> FALSE]

email_exists(email, exclude_user_id, fail) ==
    IF "email_exists" \in fail THEN FALSE
    ELSE \E u \in users :
            /\ u.email = email
            /\ (exclude_user_id # None => u.id # exclude_user_id[1])

\* the rows the query of get_session_user selects
LiveSessions(token) ==
    {s \in sessions : s.id = token /\ ~s.revoked /\ s.expires_at > now}

get_session_user(token, fail) ==
    IF token = NoCookie THEN None
    ELSE IF "sessions.select" \in fail THEN None
    ELSE IF LiveSessions(token) = {} THEN None
    ELSE IF "users.select" \in fail THEN None
    ELSE LET user_id == (CHOOSE s \in LiveSessions(token) : TRUE).user_id
             found == {u \in users : u.id = user_id}
         IN  IF found = {} THEN None
             ELSE LET u == CHOOSE u \in found : TRUE
                  IN  Some([id |-> u.id, email |-> u.email])

current_user(cookie, fail) == get_session_user(cookie, fail)

destroy_session(token, fail) ==
    IF token = NoCookie \/ "sessions.update" \in fail
    THEN sessions
    ELSE {IF s.id = token THEN [s EXCEPT !.revoked = TRUE] ELSE s : s \in sessions}

register(email, password, fail) ==
    /\ Cardinality(users) < MaxUsers
    /\ UNCHANGED <<now, folders, links, objects, serial, loggedOut>>
    /\ IF email_exists(email, None, fail)
       THEN /\ last' = [op |-> "register", result |-> "email_taken"]
            /\ UNCHANGED <<users, sessions>>
       ELSE IF "users.insert" \in fail
       THEN /\ last' = [op |-> "register", result |-> "error"]
            /\ UNCHANGED <<users, sessions>>
       ELSE /\ users' = users \cup
                    {[id |-> NewUserId, email |-> email, password |-> password]}
            /\ IF "sessions.insert" \in fail
               THEN /\ last' = [op |-> "register", result |-> "error"]
                    /\ UNCHANGED sessions
               ELSE \E token \in FreshTokens :
                        /\ sessions' = sessions \cup {SessionRow(token, NewUserId)}
                        /\ last' = [op |-> "register", result |-> "ok",
                                    cookie |-> token]

login(email, password, fail) ==
    /\ UNCHANGED <<now, users, folders, links, objects, serial, loggedOut>>
    /\ IF "users.select" \in fail
       THEN /\ last' = [op |-> "login", result |-> "error"]
            /\ UNCHANGED sessions
       ELSE LET found == {u \in users : u.email = email /\ u.password = password}
            IN  IF found = {}
                THEN /\ last' = [op |-> "login", result |-> "wrong"]
                     /\ UNCHANGED sessions
                ELSE IF "sessions.insert" \in fail
                THEN /\ last' = [op |-> "login", result |-> "error"]
                     /\ UNCHANGED sessions
                ELSE \E u \in found, token \in FreshTokens :
                        /\ sessions' = sessions \cup {SessionRow(token, u.id)}
                        /\ last' = [op |-> "login", result |-> "ok",
                                    cookie |-> token]

logout(cookie, fail) ==
    /\ sessions' = destroy_session(cookie, fail)
    /\ loggedOut' = IF cookie = NoCookie THEN loggedOut ELSE loggedOut \cup {cookie}
    /\ last' = [op |-> "logout", cookie |-> cookie, raised |-> fail]
    /\ UNCHANGED <<now, users, folders, links, objects, serial>>

\* a request that only reads the session: index, dashboard
lookup(cookie, fail) ==
    /\ last' = [op |-> "lookup", cookie |-> cookie,
                user |-> current_user(cookie, fail)]
    /\ UNCHANGED <<now, users, sessions, folders, links, objects, serial, loggedOut>>

Tick ==
    /\ now < MaxNow
    /\ now' = now + 1
    /\ last' = [op |-> "tick"]
    /\ UNCHANGED <<users, sessions, folders, links, objects, serial, loggedOut>>

InitSession == IdleStore /\ IdleCode /\ IdleRace

NextSession ==
    \/ \E e \in Emails, fail \in SUBSET {"email_exists", "users.insert", "sessions.insert"} :
          register(e, <<"p">>, fail) /\ UNCHANGED <<codeVars, raceVars>>
    \/ \E e \in Emails, p \in Passwords, fail \in SUBSET {"users.select", "sessions.insert"} :
          login(e, p, fail) /\ UNCHANGED <<codeVars, raceVars>>
    \/ \E c \in Cookies, fail \in SUBSET {"sessions.update"} :
          logout(c, fail) /\ UNCHANGED <<codeVars, raceVars>>
    \/ \E c \in Cookies, fail \in SUBSET {"sessions.select", "users.select"} :
          lookup(c, fail) /\ UNCHANGED <<codeVars, raceVars>>
    \/ Tick /\ UNCHANGED <<codeVars, raceVars>>

SpecSession == InitSession /\ [][NextSession]_vars

\* C1: get_session_user(token) returns a user only if the session row of
\* the token has revoked = false and expires_at > now at the lookup, and
\* once logout was performed for a token every later lookup of it returns
\* None, also when the store call of destroy_session failed.
C1_LookupOnlyLiveAndNotLoggedOut ==
    (last.op = "lookup" /\ last.user # None) =>
        /\ \E s \in sessions :
              s.id = last.cookie /\ ~s.revoked /\ s.expires_at > now
        /\ last.cookie \notin loggedOut

C1_LookupOnlyLive ==
    (last.op = "lookup" /\ last.user # None) =>
        \E s \in sessions :
            s.id = last.cookie /\ ~s.revoked /\ s.expires_at > now

----------------------------------------------------------------------------
(* Folders and profile: add_folder, delete_folder, delete_selected_folders *)
(* and profile.                                                            *)

RECURSIVE lstrip(_)
lstrip(s) == IF s # <<>> /\ Head(s) = " " THEN lstrip(Tail(s)) ELSE s

RECURSIVE rstrip(_)
rstrip(s) ==
    IF s # <<>> /\ s[Len(s)] = " " THEN rstrip(SubSeq(s, 1, Len(s) - 1)) ELSE s

\* str.strip()
strip(s) == rstrip(lstrip(s))

MaxFolders == 2

folder_name_exists(name, user_id, fail) ==
    IF "folder_name_exists" \in fail THEN FALSE
    ELSE \E f \in folders : f.name = name /\ f.user_id = user_id

delete_folder_rows_unscoped(folder_id, user_id) ==
    {f \in folders : f.id = folder_id}

\* the rows delete_folder removes: .eq('id', folder_id).eq('user_id', user_id)
delete_folder_rows(folder_id, user_id) ==
    {f \in folders : f.id = folder_id /\ f.user_id = user_id}

\* the ids delete_selected_folders keeps: .eq('user_id', user_id).in_('id', selected)
valid_folder_ids(selected, user_id) ==
    {f.id : f \in {g \in folders : g.user_id = user_id /\ g.id \in selected}}

add_folder(cookie, folder_name_raw, fail) ==
    LET user == current_user(cookie, fail)
        folder_name == strip(folder_name_raw)
        Done(result) == last' = [op |-> "add_folder", cookie |-> cookie,
                                 result |-> result, raised |-> fail]
    IN  /\ serial.folders < MaxFolders
        /\ UNCHANGED <<now, users, sessions, links, objects, loggedOut>>
        /\ IF user = None
           THEN Done("login") /\ UNCHANGED <<folders, serial>>
           ELSE IF folder_name = <<>>
           THEN Done("empty") /\ UNCHANGED <<folders, serial>>
           ELSE IF folder_name_exists(folder_name, user[1].id, fail)
           THEN Done("taken") /\ UNCHANGED <<folders, serial>>
           ELSE IF "folders.insert" \in fail
           THEN Done("error") /\ UNCHANGED <<folders, serial>>
           ELSE /\ folders' = folders \cup
                        {[id |-> serial.folders + 1, name |-> folder_name,
                          user_id |-> user[1].id]}
                /\ serial' = [serial EXCEPT !.folders = @ + 1]
                /\ Done("ok")

delete_folder(cookie, folder_id, fail) ==
    LET user == current_user(cookie, fail)
        Done(result) == last' = [op |-> "delete_folder", cookie |-> cookie,
                                 result |-> result]
    IN  /\ UNCHANGED <<now, users, sessions, links, objects, serial, loggedOut>>
        /\ IF user = None
           THEN Done("login") /\ UNCHANGED folders
           ELSE IF "folders.select" \in fail
           THEN Done("error") /\ UNCHANGED folders
           ELSE IF delete_folder_rows(folder_id, user[1].id) = {}
           THEN Done("not_found") /\ UNCHANGED folders
           ELSE IF "folders.delete" \in fail
           THEN Done("error") /\ UNCHANGED folders
           ELSE /\ folders' = folders \ delete_folder_rows(folder_id, user[1].id)
                /\ Done("ok")

delete_selected_folders(cookie, selected_folders, fail) ==
    LET user == current_user(cookie, fail)
        Done(result) == last' = [op |-> "delete_selected_folders",
                                 cookie |-> cookie, result |-> result]
    IN  /\ UNCHANGED <<now, users, sessions, links, objects, serial, loggedOut>>
        /\ IF user = None
           THEN Done("login") /\ UNCHANGED folders
           ELSE IF selected_folders = {}
           THEN Done("none_selected") /\ UNCHANGED folders
           ELSE IF "folders.select" \in fail \/ "folders.delete" \in fail
           THEN Done("error") /\ UNCHANGED folders
           ELSE /\ folders' =
                      {f \in folders :
                          ~(f.user_id = user[1].id
                            /\ f.id \in valid_folder_ids(selected_folders, user[1].id))}
                /\ Done("ok")

\* the users row(s) profile updates: .eq('id', user['id'])
profile_rows(user) == {u \in users : u.id = user.id}

\* profile, method POST
profile(cookie, email_raw, password_raw, fail) ==
    LET user == current_user(cookie, fail)
        new_email == strip(email_raw)
        new_password == strip(password_raw)
        Done(result) == last' = [op |-> "profile", cookie |-> cookie,
                                 result |-> result]
    IN  /\ UNCHANGED <<now, sessions, folders, links, objects, serial, loggedOut>>
        /\ IF user = None
           THEN Done("login") /\ UNCHANGED users
           ELSE LET change_email == new_email # <<>> /\ new_email # user[1].email
                IN  IF change_email /\ email_exists(new_email, Some(user[1].id), fail)
                    THEN Done("email_taken") /\ UNCHANGED users
                    ELSE IF ~change_email /\ new_password = <<>>
                    THEN Done("no_change") /\ UNCHANGED users
                    ELSE IF "users.update" \in fail
                    THEN Done("error") /\ UNCHANGED users
                    ELSE /\ users' =
                              {IF u \in profile_rows(user[1])
                               THEN [id |-> u.id,
                                     email |-> IF change_email THEN new_email
                                               ELSE u.email,
                                     password |-> IF new_password # <<>>
                                                  THEN new_password
                                                  ELSE u.password]
                               ELSE u : u \in users}
                         /\ Done("ok")

\* the outcomes of a request's store calls: all answer, or one of them raises
OneOf(calls) == {{}} \cup {{c} : c \in calls}

FolderCookies == {NoCookie, "t1", "t2", "t3"}
FolderNames == {<<" ">>, <<"a">>, <<" ", "a", " ">>, <<"b">>}
ProfileEmails == {<<>>, <<" ", "g">>}
ProfilePasswords == {<<" ">>, <<"q">>}

\* two registered users, each logged in, and an older session of user 1
\* revoked by logout
InitFolders ==
    /\ now = 0
    /\ users = {[id |-> 1, email |-> <<"e">>, password |-> <<"p">>],
                [id |-> 2, email |-> <<"f">>, password |-> <<"p">>]}
    /\ sessions = {[id |-> "t1", user_id |-> 1, expires_at |-> 7, revoked |-> FALSE],
                   [id |-> "t2", user_id |-> 2, expires_at |-> 7, revoked |-> FALSE],
                   [id |-> "t3", user_id |-> 1, expires_at |-> 7, revoked |-> TRUE]}
    /\ folders = {}
    /\ links = {}
    /\ objects = {}
    /\ serial = [folders |-> 0, links |-> 0]
    /\ last = [op |-> "none"]
    /\ loggedOut = {"t3"}
    /\ IdleCode /\ IdleRace

NextFolders ==
    \/ \E c \in FolderCookies, n \in FolderNames,
          fail \in OneOf({"sessions.select", "folder_name_exists", "folders.insert"}) :
          add_folder(c, n, fail) /\ UNCHANGED <<codeVars, raceVars>>
    \/ \E c \in FolderCookies, id \in 1..MaxFolders,
          fail \in OneOf({"folders.select", "folders.delete"}) :
          delete_folder(c, id, fail) /\ UNCHANGED <<codeVars, raceVars>>
    \/ \E c \in FolderCookies, sel \in SUBSET (1..MaxFolders),
          fail \in OneOf({"folders.select", "folders.delete"}) :
          delete_selected_folders(c, sel, fail) /\ UNCHANGED <<codeVars, raceVars>>
    \/ \E c \in FolderCookies, e \in ProfileEmails, p \in ProfilePasswords,
          fail \in OneOf({"users.select", "email_exists", "users.update"}) :
          profile(c, e, p, fail) /\ UNCHANGED <<codeVars, raceVars>>

SpecFolders == InitFolders /\ [][NextFolders]_vars

\* the owner of the valid session a cookie names, if any
SessionOwner(cookie) ==
    IF \E s \in sessions : s.id = cookie /\ ~s.revoked /\ s.expires_at > now
    THEN Some((CHOOSE s \in sessions :
                  s.id = cookie /\ ~s.revoked /\ s.expires_at > now).user_id)
    ELSE None

\* C6: a folder row or a user row is created, deleted or changed only by a
\* request whose valid session belongs to the owner of that row: a request
\* with no valid session changes nothing, deleting folders of another user
\* leaves them in place, and profile updates the acting user's row only.
C6_OnlyOwnerMutates ==
    [][/\ \A f \in (folders \ folders') \cup (folders' \ folders) :
              SessionOwner(last'.cookie) = Some(f.user_id)
       /\ \A u \in (users \ users') \cup (users' \ users) :
              SessionOwner(last'.cookie) = Some(u.id)]_vars

\* C6 witness: a request of user 1 naming a folder of user 2 was refused
\* and the folder is still there, after user 1 deleted a folder of its own.
C6_Witness ==
    /\ last.op = "delete_folder"
    /\ last.cookie = "t1"
    /\ last.result = "not_found"
    /\ \E f \in folders : f.user_id = 2
    /\ Cardinality(folders) < serial.folders

\* C7: no user owns two folders with the same name, whatever the
\* folder_name_exists lookup answers or raises; two users may each own a
\* folder of the same name.
C7_NameUniquePerUser ==
    \A f \in folders, g \in folders :
        (f.user_id = g.user_id /\ f.name = g.name) => f.id = g.id

----------------------------------------------------------------------------
(* Links: code_exists, store_link, delete_link, update_short_code and the  *)
(* shorten route.  app.py ends inside shorten's generation loop; the rest  *)
(* of the handler (the loop's test, the content handling and the call of   *)
(* store_link) follows section 4.3 of the specification.                   *)

MaxLinks == 2

ABC == <<"a", "b", "c">>

code_exists(short_code, fail) ==
    IF "code_exists" \in fail THEN FALSE
    ELSE \E l \in links : l.short_code = short_code

\* the lookup of code_exists as a store call, marked when it raises
code_exists_call(fail) ==
    IF "code_exists" \in fail THEN "code_exists:raised" ELSE "code_exists"

\* the store calls get_session_user makes, in order
session_calls(token, fail) ==
    IF token = NoCookie THEN <<>>
    ELSE IF "sessions.select" \in fail \/ LiveSessions(token) = {}
    THEN <<"sessions.select">>
    ELSE <<"sessions.select", "users.select">>

\* str.isdigit(): a non-empty string of digit characters, the non-ASCII
\* ones included
isdigit(s) == s # <<>> /\ \A i \in 1..Len(s) : s[i] \in Digits \cup {"SUP"}

DigitValue(c) == CASE c = "0" -> 0 [] c = "1" -> 1 [] c = "7" -> 7

\* int(s) raises ValueError on a digit character that is no decimal digit
int_raises(s) == \E i \in 1..Len(s) : s[i] \notin Digits

RECURSIVE int(_)
int(s) ==
    IF s = <<>> THEN 0
    ELSE 10 * int(SubSeq(s, 1, Len(s) - 1)) + DigitValue(s[Len(s)])

\* int(folder_id) if folder_id and folder_id.isdigit() else None
parse_folder_id(folder_raw) ==
    IF folder_raw # None /\ folder_raw[1] # <<>> /\ isdigit(folder_raw[1])
    THEN Some(int(folder_raw[1]))
    ELSE None

\* the row store_link inserts: user_id is set only when truthy
store_link(short_code, content_type, content, user_id, folder_id) ==
    [id |-> serial.links + 1,
     short_code |-> short_code,
     content_type |-> content_type,
     content |-> content,
     user_id |-> IF user_id # None /\ user_id[1] # 0 THEN user_id ELSE None,
     folder_id |-> folder_id]

ALLOWED_EXTENSIONS == [image |-> {"jpg", "jpeg", "png"}, document |-> {"pdf", "docx"}]
MAX_FILE_MB == 10

\* the object key {short_code}_{original_filename} and its public URL
object_key(short_code, file) == short_code \o <<"_">> \o file.name \o <<".", file.ext>>
public_url(key) == <<"BASE", "/content/">> \o key

\* the number of candidates the generation loop draws: the first one
\* code_exists does not report
first_free(cands, fail) ==
    IF \E i \in 1..Len(cands) : ~code_exists(cands[i], fail)
    THEN CHOOSE i \in 1..Len(cands) :
            /\ ~code_exists(cands[i], fail)
            /\ \A j \in 1..(i - 1) : code_exists(cands[j], fail)
    ELSE 0

Repeat(call, n) == [i \in 1..n |-> call]

shorten_content_upload_first(base, content_type, body, file, short_code, user_id, folder_id, calls, fail) ==
    LET Done(result, cs) ==
            last' = [base EXCEPT !.result = result, !.calls = cs,
                                 !.short_code = Some(short_code)]
        key == object_key(short_code, file)
        Insert(content, cs) ==
            IF "links.insert" \in fail
            THEN Done("error", Append(cs, "links.insert")) /\ UNCHANGED <<links, serial>>
            ELSE /\ links' = links \cup
                        {store_link(short_code, content_type, content, user_id, folder_id)}
                 /\ serial' = [serial EXCEPT !.links = @ + 1]
                 /\ Done("ok", Append(cs, "links.insert"))
    IN  IF content_type \in {"image", "document"}
        THEN IF "storage.upload" \in fail
             THEN /\ Done("error", Append(calls, "storage.upload"))
                  /\ UNCHANGED <<links, objects, serial>>
             ELSE /\ objects' = objects \cup {key}
                  /\ IF file.ext \notin ALLOWED_EXTENSIONS[content_type]
                     THEN /\ Done("bad_ext", Append(calls, "storage.upload"))
                          /\ UNCHANGED <<links, serial>>
                     ELSE Insert(public_url(key), Append(calls, "storage.upload"))
        ELSE UNCHANGED objects /\ Insert(body, calls)

\* the rest of shorten once short_code is chosen: the content by type, the
\* upload of a file, and store_link
shorten_content(base, content_type, body, file, short_code, user_id, folder_id, calls, fail) ==
    LET Done(result, cs) ==
            last' = [base EXCEPT !.result = result, !.calls = cs,
                                 !.short_code = Some(short_code)]
        key == object_key(short_code, file)
        content == CASE content_type = "url" ->
                            IF body # <<>> /\ Head(body) \in {"http://", "https://"}
                            THEN body ELSE <<"http://">> \o body
                     [] content_type = "text" -> body
                     [] OTHER -> public_url(key)
        Insert(cs) ==
            IF "links.insert" \in fail
            THEN Done("error", Append(cs, "links.insert")) /\ UNCHANGED <<links, serial>>
            ELSE /\ links' = links \cup
                        {store_link(short_code, content_type, content, user_id, folder_id)}
                 /\ serial' = [serial EXCEPT !.links = @ + 1]
                 /\ Done("ok", Append(cs, "links.insert"))
    IN  IF content_type \in {"image", "document"}
        THEN IF file.ext \notin ALLOWED_EXTENSIONS[content_type]
             THEN Done("bad_ext", calls) /\ UNCHANGED <<links, objects, serial>>
             ELSE IF file.mb > MAX_FILE_MB
             THEN Done("too_big", calls) /\ UNCHANGED <<links, objects, serial>>
             ELSE IF "storage.upload" \in fail
             THEN /\ Done("error", Append(calls, "storage.upload"))
                  /\ UNCHANGED <<links, objects, serial>>
             ELSE /\ objects' = objects \cup {key}
                  /\ Insert(Append(calls, "storage.upload"))
        ELSE UNCHANGED objects /\ Insert(calls)

shorten(cookie, content_type, custom_raw, folder_raw, body, file, cands, fail) ==
    LET user == current_user(cookie, fail)
        user_id == IF user # None THEN Some(user[1].id) ELSE None
        custom_code == strip(custom_raw)
        c0 == session_calls(cookie, fail)
        base == [op |-> "shorten", cookie |-> cookie, custom |-> custom_code,
                 folder_raw |-> folder_raw, folder_id |-> None,
                 short_code |-> None, result |-> "", calls |-> c0]
    IN  /\ serial.links < MaxLinks
        /\ UNCHANGED <<now, users, sessions, folders, loggedOut>>
        /\ IF folder_raw # None /\ isdigit(folder_raw[1]) /\ int_raises(folder_raw[1])
           THEN /\ last' = [base EXCEPT !.result = "value_error"]
                /\ UNCHANGED <<links, objects, serial>>
           ELSE LET folder_id == parse_folder_id(folder_raw)
                    parsed == [base EXCEPT !.folder_id = folder_id]
                IN  IF custom_code # <<>>
                    THEN IF ~is_valid_custom_code(custom_code)
                         THEN /\ last' = [parsed EXCEPT !.result = "invalid"]
                              /\ UNCHANGED <<links, objects, serial>>
                         ELSE IF code_exists(custom_code, fail)
                         THEN /\ last' = [parsed EXCEPT !.result = "taken",
                                             !.calls = Append(c0, code_exists_call(fail))]
                              /\ UNCHANGED <<links, objects, serial>>
                         ELSE shorten_content(parsed, content_type, body, file,
                                              custom_code, user_id, folder_id,
                                              Append(c0, code_exists_call(fail)), fail)
                    ELSE /\ first_free(cands, fail) > 0
                         /\ shorten_content(parsed, content_type, body, file,
                                            cands[first_free(cands, fail)],
                                            user_id, folder_id,
                                            c0 \o Repeat(code_exists_call(fail), first_free(cands, fail)),
                                            fail)

\* the rows of links a query .eq('short_code', c).eq('user_id', u) selects;
\* a null user_id equals nothing
link_rows_any_owner(short_code, user_id) ==
    {l \in links : l.short_code = short_code}

link_rows(short_code, user_id) ==
    {l \in links : l.short_code = short_code /\ user_id # None /\ l.user_id = user_id}

\* link['content'].split('/content/')[-1]
RECURSIVE file_name(_)
file_name(content) ==
    IF \E i \in 1..Len(content) : content[i] = "/content/"
    THEN file_name(Tail(content))
    ELSE content

delete_link(short_code, user_id, fail) ==
    LET Done(result) == last' = [op |-> "delete_link", code |-> short_code,
                                 user_id |-> user_id, result |-> result]
    IN  /\ UNCHANGED <<now, users, sessions, folders, serial, loggedOut>>
        /\ IF "links.select" \in fail \/ link_rows(short_code, user_id) = {}
           THEN Done("false") /\ UNCHANGED <<links, objects>>
           ELSE \E link \in link_rows(short_code, user_id) :
                  IF link.content_type \in {"image", "document"} /\ "storage.remove" \in fail
                  THEN Done("false") /\ UNCHANGED <<links, objects>>
                  ELSE /\ objects' = IF link.content_type \in {"image", "document"}
                                     THEN objects \ {file_name(link.content)}
                                     ELSE objects
                       /\ IF "links.delete" \in fail
                          THEN Done("false") /\ UNCHANGED links
                          ELSE /\ links' = links \ link_rows(short_code, user_id)
                               /\ Done("true")

update_short_code(old_code, new_code, user_id, fail) ==
    LET Done(result, calls) ==
            last' = [op |-> "update_short_code", code |-> old_code,
                     custom |-> new_code, user_id |-> user_id,
                     result |-> result, calls |-> calls]
    IN  /\ UNCHANGED <<now, users, sessions, folders, objects, serial, loggedOut>>
        /\ IF code_exists(new_code, fail)
           THEN Done("taken", <<code_exists_call(fail)>>) /\ UNCHANGED links
           ELSE IF ~is_valid_custom_code(new_code)
           THEN Done("invalid", <<code_exists_call(fail)>>) /\ UNCHANGED links
           ELSE IF "links.update" \in fail
           THEN Done("error", <<code_exists_call(fail), "links.update">>) /\ UNCHANGED links
           ELSE /\ links' = {IF l \in link_rows(old_code, user_id)
                             THEN [l EXCEPT !.short_code = new_code]
                             ELSE l : l \in links}
                /\ Done("ok", <<code_exists_call(fail), "links.update">>)

\* two registered users, each logged in, and an older session of user 1
\* revoked by logout; no folder and no link yet
InitLinks ==
    /\ now = 0
    /\ users = {[id |-> 1, email |-> <<"e">>, password |-> <<"p">>],
                [id |-> 2, email |-> <<"f">>, password |-> <<"p">>]}
    /\ sessions = {[id |-> "t1", user_id |-> 1, expires_at |-> 7, revoked |-> FALSE],
                   [id |-> "t2", user_id |-> 2, expires_at |-> 7, revoked |-> FALSE],
                   [id |-> "t3", user_id |-> 1, expires_at |-> 7, revoked |-> TRUE]}
    /\ folders = {}
    /\ links = {}
    /\ objects = {}
    /\ serial = [folders |-> 0, links |-> 0]
    /\ last = [op |-> "none"]
    /\ loggedOut = {"t3"}
    /\ IdleCode /\ IdleRace

Files == {[name |-> <<"f">>, ext |-> "jpg", mb |-> 1],
          [name |-> <<"f">>, ext |-> "exe", mb |-> 1],
          [name |-> <<"f">>, ext |-> "pdf", mb |-> 11]}
G1 == <<"a", "a", "a", "a", "a", "a">>
G2 == <<"Z", "7", "a", "a", "a", "a">>
Candidates == {<<G1>>, <<G1, G2>>}

CBA == <<"c", "b", "a">>

(* shorten with a custom code, every content type and uploaded files *)
NextShorten ==
    \E c \in {NoCookie, "t1"},
       t \in {"url", "image", "document"},
       custom \in {CBA, <<" ">> \o ABC, <<"a", "!">>},
       file \in Files,
       fail \in OneOf({"code_exists", "storage.upload", "links.insert"}) :
        shorten(c, t, custom, None, <<"x">>, file, <<G1>>, fail)
        /\ UNCHANGED <<codeVars, raceVars>>

SpecShorten == InitLinks /\ [][NextShorten]_vars

\* C2: the short code shorten chooses, generated or custom, is never a
\* code present in the links table at the time of the call, whatever the
\* code_exists lookup answers or raises.
C2_ChosenCodeIsNew ==
    [][(last'.op = "shorten" /\ last'.short_code # None) =>
          \A l \in links : l.short_code # last'.short_code[1]]_vars

\* C5 as stated: a shorten request whose file has an extension outside the
\* allow-list of its content_type is rejected before any call to the
\* store: no session lookup, no code_exists lookup, no upload, no insert.
C5_RejectedBeforeAnyStoreCall ==
    (last.op = "shorten" /\ last.result = "bad_ext") => last.calls = <<>>

\* C5 as amended: such a request is rejected before anything is written:
\* no object is uploaded and no links row inserted; the only store calls
\* before the rejection are the reads of the session lookup and of
\* code_exists.
C5_RejectedBeforeAnyWrite ==
    [][(last'.op = "shorten" /\ last'.result = "bad_ext") =>
          /\ links' = links
          /\ objects' = objects
          /\ \A i \in 1..Len(last'.calls) :
                last'.calls[i] \in {"sessions.select", "users.select",
                                    "code_exists", "code_exists:raised"}]_vars

\* C5 witness: a request with a session cookie and a custom code, rejected
\* for its extension after the session and the code were looked up.
C5_Witness ==
    /\ last.op = "shorten"
    /\ last.result = "bad_ext"
    /\ last.custom = ABC
    /\ last.calls = <<"sessions.select", "users.select", "code_exists">>

FolderRaws == {None, Some(<<>>), Some(<<"0">>), Some(<<"1">>), Some(<<"-", "1">>),
               Some(<<"a">>), Some(<<"SUP">>), Some(<<"0", "7">>), Some(<<"1", "a">>),
               Some(<<"1", "SUP">>)}

(* shorten of a text, with every shape of the folder_id field *)
NextShortenFolder ==
    \E c \in {NoCookie, "t1"}, raw \in FolderRaws, cands \in Candidates,
       fail \in OneOf({"links.insert"}) :
        shorten(c, "text", <<>>, raw, <<"x">>, CHOOSE f \in Files : TRUE, cands, fail)
        /\ UNCHANGED <<codeVars, raceVars>>

SpecShortenFolder == InitLinks /\ [][NextShortenFolder]_vars

IsDecimalString(raw) ==
    /\ raw # None
    /\ raw[1] # <<>>
    /\ \A i \in 1..Len(raw[1]) : raw[1][i] \in {"0", "1", "7"}

\* C9: the link gets a folder only when the submitted folder_id is a
\* positive integer (>= 1); for every other value (missing, empty,
\* non-numeric, negative, zero) the request goes on with a null folder_id
\* and the content is unfiled.
C9_FolderOnlyIfPositive ==
    last.op = "shorten" =>
        /\ last.result # "value_error"
        /\ last.folder_id # None => last.folder_id[1] >= 1

\* C9, what the code does: the link gets a folder exactly when the
\* submitted folder_id is a non-empty string of decimal digits, zero
\* included, and the folder is that number; a missing, empty, non-numeric
\* or negative value gives null; a string of digit characters int()
\* cannot parse ends the request with no link.
C9_FolderIffDecimalString ==
    last.op = "shorten" =>
        /\ last.result = "value_error" =>
              /\ last.short_code = None
              /\ last.folder_raw # None
              /\ ~IsDecimalString(last.folder_raw)
        /\ last.result # "value_error" =>
              /\ last.folder_id # None <=> IsDecimalString(last.folder_raw)
              /\ last.folder_raw = Some(<<"0">>) => last.folder_id = Some(0)
              /\ last.folder_raw = Some(<<"0", "7">>) => last.folder_id = Some(7)
              /\ last.folder_id # None => last.folder_id[1] >= 0
        /\ last.result = "ok" =>
              \E l \in links : /\ l.short_code = last.short_code[1]
                               /\ l.id = serial.links
                               /\ l.folder_id = last.folder_id

\* C9, reached: folder_id "0" was submitted and the link is filed under 0.
C9_Witness ==
    /\ last.op = "shorten"
    /\ last.result = "ok"
    /\ last.folder_raw = Some(<<"0">>)
    /\ \E l \in links : l.id = serial.links /\ l.folder_id = Some(0)

LinkCodes == {ABC, G1, ABC \o <<"LF">>}
NewCodes == {ABC, <<"a", "!", "c">>, ABC \o <<"LF">>}
Owners == {None, Some(1), Some(2)}

(* shorten, update_short_code and delete_link *)
NextLinks ==
    \/ \E c \in {NoCookie, "t1"}, t \in {"text", "image"},
          custom \in {<<>>, ABC, <<"a", "!", "c">>},
          fail \in OneOf({"code_exists", "links.insert"}) :
          shorten(c, t, custom, None, <<"x">>, CHOOSE f \in Files : f.ext = "jpg",
                  <<G1>>, fail)
          /\ UNCHANGED <<codeVars, raceVars>>
    \/ \E old \in LinkCodes, new \in NewCodes, u \in Owners,
          fail \in OneOf({"code_exists", "links.update"}) :
          update_short_code(old, new, u, fail) /\ UNCHANGED <<codeVars, raceVars>>
    \/ \E c \in LinkCodes, u \in Owners,
          fail \in OneOf({"links.select", "storage.remove", "links.delete"}) :
          delete_link(c, u, fail) /\ UNCHANGED <<codeVars, raceVars>>

SpecLinks == InitLinks /\ [][NextLinks]_vars

WellFormedCode(s) ==
    /\ Len(s) \in 3..10
    /\ \A i \in 1..Len(s) : s[i] \in {"a", "b", "c", "Z", "0", "1", "7", "_", "-"}

\* C4: wherever a custom code is supplied (shorten, update_short_code) the
\* format is validated before the existence check: a code of invalid
\* format yields "invalid format" without the store being consulted for
\* it, a well-formed code already present yields "already taken", and in
\* both cases the links table is unchanged.
C4_FormatThenExistence ==
    [][(last'.op \in {"shorten", "update_short_code"} /\ last'.custom # <<>>) =>
          /\ ~WellFormedCode(last'.custom) =>
                /\ last'.result = "invalid"
                /\ \A i \in 1..Len(last'.calls) :
                      last'.calls[i] \notin {"code_exists", "code_exists:raised"}
                /\ links' = links
          /\ (WellFormedCode(last'.custom)
              /\ \E l \in links : l.short_code = last'.custom) =>
                /\ last'.result = "taken"
                /\ links' = links]_vars

\* C10: delete_link and update_short_code never delete or change a link
\* whose user_id differs from the given user_id, an anonymous link least
\* of all; when the named link is not owned by user_id, the links table
\* and the object store are unchanged.
C10_OnlyOwnLinks ==
    [][last'.op \in {"delete_link", "update_short_code"} =>
          /\ \A l \in (links \ links') \cup (links' \ links) :
                l.user_id # None /\ l.user_id = last'.user_id
          /\ (~\E l \in links : /\ l.short_code = last'.code
                                /\ l.user_id # None
                                /\ l.user_id = last'.user_id) =>
                links' = links /\ objects' = objects]_vars

\* C10 witness: delete_link named the uploaded image of an anonymous
\* link; it answered False and the link and its object are still there.
C10_Witness ==
    /\ last.op = "delete_link"
    /\ last.result = "false"
    /\ \E l \in links : /\ l.short_code = last.code
                        /\ l.user_id = None
                        /\ l.content_type = "image"
                        /\ file_name(l.content) \in objects

\* ---------------------------------------------------------------------
\* Concurrent requests.  Each request is a sequence of round trips to the
\* store; between two round trips of one request another request may run.
\* Here the lookups answer (no lookup raises), so a duplicate row can only
\* come from an interleaving.
\* ---------------------------------------------------------------------

Requests == {"r1", "r2"}

NoLocals == [op |-> "none"]

\* the requests of one handler that have started and not yet answered
InFlight(op) == {r \in Requests : req[r].op = op}

Answer(r, record) ==
    /\ last' = record
    /\ pc' = [pc EXCEPT ![r] = "idle"]
    /\ req' = [req EXCEPT ![r] = NoLocals]

\* add_folder up to the uniqueness check: the session, the name
add_folder_begin(r, cookie, folder_name_raw) ==
    LET user == current_user(cookie, {})
        folder_name == strip(folder_name_raw)
        Done(result) == [op |-> "add_folder", request |-> r, result |-> result,
                         raised |-> {}]
    IN  /\ pc[r] = "idle"
        /\ serial.folders + Cardinality(InFlight("add_folder")) < MaxFolders
        /\ UNCHANGED <<now, users, sessions, folders, links, objects, serial,
                       loggedOut>>
        /\ IF user = None
           THEN Answer(r, Done("login"))
           ELSE IF folder_name = <<>>
           THEN Answer(r, Done("empty"))
           ELSE /\ pc' = [pc EXCEPT ![r] = "check"]
                /\ req' = [req EXCEPT ![r] = [op |-> "add_folder",
                                              user_id |-> user[1].id,
                                              name |-> folder_name]]
                /\ last' = Done("begun")

\* the uniqueness check of add_folder: one select
add_folder_check(r) ==
    LET Done(result) == [op |-> "add_folder", request |-> r, result |-> result,
                         raised |-> {}]
    IN  /\ pc[r] = "check"
        /\ UNCHANGED <<now, users, sessions, folders, links, objects, serial,
                       loggedOut>>
        /\ IF folder_name_exists(req[r].name, req[r].user_id, {})
           THEN Answer(r, Done("taken"))
           ELSE /\ pc' = [pc EXCEPT ![r] = "insert"]
                /\ last' = Done("passed")
                /\ UNCHANGED req

add_folder_insert_rechecked(r, fail) ==
    LET Done(result) == [op |-> "add_folder", request |-> r, result |-> result,
                         raised |-> fail]
    IN  /\ pc[r] = "insert"
        /\ UNCHANGED <<now, users, sessions, links, objects, loggedOut>>
        /\ IF folder_name_exists(req[r].name, req[r].user_id, {})
           THEN Answer(r, Done("taken")) /\ UNCHANGED <<folders, serial>>
           ELSE IF "folders.insert" \in fail
           THEN Answer(r, Done("error")) /\ UNCHANGED <<folders, serial>>
           ELSE /\ folders' = folders \cup
                        {[id |-> serial.folders + 1, name |-> req[r].name,
                          user_id |-> req[r].user_id]}
                /\ serial' = [serial EXCEPT !.folders = @ + 1]
                /\ Answer(r, Done("ok"))

\* the insert of add_folder: it looks at no row of the table
add_folder_insert(r, fail) ==
    LET Done(result) == [op |-> "add_folder", request |-> r, result |-> result,
                         raised |-> fail]
    IN  /\ pc[r] = "insert"
        /\ UNCHANGED <<now, users, sessions, links, objects, loggedOut>>
        /\ IF "folders.insert" \in fail
           THEN Answer(r, Done("error")) /\ UNCHANGED <<folders, serial>>
           ELSE /\ folders' = folders \cup
                        {[id |-> serial.folders + 1, name |-> req[r].name,
                          user_id |-> req[r].user_id]}
                /\ serial' = [serial EXCEPT !.folders = @ + 1]
                /\ Answer(r, Done("ok"))

\* shorten with a custom code, up to the uniqueness check: the session,
\* the code and its format
shorten_begin(r, cookie, custom_raw) ==
    LET user == current_user(cookie, {})
        custom_code == strip(custom_raw)
        Done(result) == [op |-> "shorten", request |-> r, raised |-> {},
                         result |-> result, calls |-> session_calls(cookie, {}),
                         short_code |-> None]
    IN  /\ pc[r] = "idle"
        /\ custom_code # <<>>
        /\ serial.links + Cardinality(InFlight("shorten")) < MaxLinks
        /\ UNCHANGED <<now, users, sessions, folders, links, objects, serial,
                       loggedOut>>
        /\ IF ~is_valid_custom_code(custom_code)
           THEN Answer(r, Done("invalid"))
           ELSE /\ pc' = [pc EXCEPT ![r] = "check_code"]
                /\ req' = [req EXCEPT ![r] =
                              [op |-> "shorten",
                               user_id |-> IF user # None THEN Some(user[1].id)
                                           ELSE None,
                               short_code |-> custom_code,
                               calls |-> session_calls(cookie, {})]]
                /\ last' = Done("begun")

\* the uniqueness check of shorten: one select
shorten_check(r) ==
    LET cs == Append(req[r].calls, code_exists_call({}))
        Done(result) == [op |-> "shorten", request |-> r, raised |-> {},
                         result |-> result, calls |-> cs,
                         short_code |-> Some(req[r].short_code)]
    IN  /\ pc[r] = "check_code"
        /\ UNCHANGED <<now, users, sessions, folders, links, objects, serial,
                       loggedOut>>
        /\ IF code_exists(req[r].short_code, {})
           THEN Answer(r, Done("taken"))
           ELSE /\ pc' = [pc EXCEPT ![r] = "store"]
                /\ req' = [req EXCEPT ![r].calls = cs]
                /\ last' = Done("passed")

\* the rest of shorten for a URL: store_link
shorten_store(r, body, fail) ==
    /\ pc[r] = "store"
    /\ UNCHANGED <<now, users, sessions, folders, loggedOut>>
    /\ shorten_content([op |-> "shorten", request |-> r, raised |-> fail,
                        result |-> "", calls |-> req[r].calls,
                        short_code |-> None],
                       "url", body, CHOOSE f \in Files : TRUE,
                       req[r].short_code, req[r].user_id, None,
                       req[r].calls, fail)
    /\ pc' = [pc EXCEPT ![r] = "idle"]
    /\ req' = [req EXCEPT ![r] = NoLocals]

InitRace ==
    /\ now = 0
    /\ users = {[id |-> 1, email |-> <<"e">>, password |-> <<"p">>],
                [id |-> 2, email |-> <<"f">>, password |-> <<"p">>]}
    /\ sessions = {[id |-> "t1", user_id |-> 1, expires_at |-> 7, revoked |-> FALSE],
                   [id |-> "t2", user_id |-> 2, expires_at |-> 7, revoked |-> FALSE],
                   [id |-> "t3", user_id |-> 1, expires_at |-> 7, revoked |-> TRUE]}
    /\ folders = {}
    /\ links = {}
    /\ objects = {}
    /\ serial = [folders |-> 0, links |-> 0]
    /\ last = [op |-> "none"]
    /\ loggedOut = {"t3"}
    /\ IdleCode
    /\ pc = [r \in Requests |-> "idle"]
    /\ req = [r \in Requests |-> NoLocals]

RaceCookies == {NoCookie, "t1", "t2"}
RaceNames == {<<>>, <<"a">>, <<" ", "a">>}
RaceCodes == {ABC, <<" ">> \o ABC, <<"a", "!">>}

NextRace ==
    \E r \in Requests :
        \/ \E c \in RaceCookies, n \in RaceNames :
              add_folder_begin(r, c, n) /\ UNCHANGED codeVars
        \/ add_folder_check(r) /\ UNCHANGED codeVars
        \/ \E fail \in OneOf({"folders.insert"}) :
              add_folder_insert(r, fail) /\ UNCHANGED codeVars
        \/ \E c \in RaceCookies, custom \in RaceCodes :
              shorten_begin(r, c, custom) /\ UNCHANGED codeVars
        \/ shorten_check(r) /\ UNCHANGED codeVars
        \/ \E fail \in OneOf({"links.insert"}) :
              shorten_store(r, <<"x">>, fail) /\ UNCHANGED codeVars

SpecRace == InitRace /\ [][NextRace]_vars

\* C8: the uniqueness checks are read-then-write with no transaction and
\* the application does nothing to prevent the second insert: a request
\* that has passed folder_name_exists (add_folder) or code_exists (shorten
\* with a custom code) and takes its insert step adds its row whatever the
\* table holds by then, a row of the same user and name or of the same
\* short code included; it answers an error only when the store itself
\* raised, and never answers that the name or code is taken.
C8_InsertAfterCheckIsUnguarded ==
    [][\A r \in Requests :
          /\ (pc[r] = "insert" /\ pc'[r] = "idle") =>
                /\ last'.result \in {"ok", "error"}
                /\ (last'.result = "error") = ("folders.insert" \in last'.raised)
                /\ last'.result = "ok" =>
                      \E f \in folders' \ folders :
                          f.name = req[r].name /\ f.user_id = req[r].user_id
          /\ (pc[r] = "store" /\ pc'[r] = "idle") =>
                /\ last'.result \in {"ok", "error"}
                /\ (last'.result = "error") = ("links.insert" \in last'.raised)
                /\ last'.result = "ok" =>
                      \E l \in links' \ links :
                          l.short_code = req[r].short_code]_vars

\* C8 witness: both races have happened: one user owns two folders of the
\* same name, and two links carry the same short code; no lookup raised,
\* so each pair was inserted by two requests that had both passed the
\* check before either inserted.
C8_Witness ==
    /\ \E f, g \in folders :
          f.id # g.id /\ f.user_id = g.user_id /\ f.name = g.name
    /\ \E l, m \in links : l.id # m.id /\ l.short_code = m.short_code

====
